---- MODULE Spec2Model ----
(***************************************************************************)
(* Model of edifact/messages/base.py: the segment matching engine of       *)
(* class Message (process_segments and its helpers), the grammar classes   *)
(* PlaceholderSegment / SegmentGroup and the result classes Group /        *)
(* DummySegment.                                                           *)
(*                                                                         *)
(* One step of the model is one activation of Message.process_segments    *)
(* (the method calls itself once per step).  Python objects that are       *)
(* shared by reference are modelled as such: the class attribute           *)
(* Message.data, the default argument list last_containers, and the Group  *)
(* instances, which live in a heap and are referred to by their index.     *)
(* Indices into Python lists are kept 0-based as in the source.            *)
(***************************************************************************)
EXTENDS Integers, Sequences, FiniteSets, TLC

\* Bounds of the model.
MaxRepeats == 2      \* largest repeats="n" attribute of a grammar element
MaxLen == 3          \* largest number of segments in the source string
MaxParses == 2       \* number of Message instances built one after another

None == "None"
Tags == {"A", "B"}
Status == {"M", "C"}
\* uid of a Group: random.choice over lowercase letters, two outcomes kept.
Uids == {"u", "v"}

\* The list with the message header left out.
segments_to_ignore_without_UNH == {"UNA", "BGM", "UNT"}

segments_to_ignore == {"UNA", "UNH", "BGM", "UNT"}

\* Tags a source segment may carry: grammar tags and one envelope tag.
InputTags == Tags \cup {"UNH"}

VARIABLES
    elements,           \* Message.elements: the grammar built by the metaclass
    segments,           \* the separated segments of the source string
    segment_index,      \* argument segment_index of process_segments
    elements_indices,   \* argument elements_indices of process_segments
    repeats,            \* argument repeats of process_segments
    last_containers,    \* the default list object of process_segments
    data,               \* the class attribute Message.data
    heap,               \* the Group instances created so far
    pc,                 \* "process_segments", "done" (returned), "raised"
    error,              \* the exception that left process_segments
    instance,           \* number of the Message instance being constructed
    returned            \* what each finished instance exposed as its data

vars == <<elements, segments, segment_index, elements_indices, repeats,
          last_containers, data, heap, pc, error, instance, returned>>

----------------------------------------------------------------------------
\* Grammar classes.

PlaceholderSegment(tag, status, reps, label) ==
    [kind |-> "PlaceholderSegment", tag |-> tag, mandatory |-> (status = "M"),
     repeats |-> reps, label |-> label]

SegmentGroup(elems, status, reps, label) ==
    [kind |-> "SegmentGroup", elements |-> elems, mandatory |-> (status = "M"),
     repeats |-> reps, label |-> label]

NoElement == [kind |-> "None"]
NoAttribute == [kind |-> "AttributeError"]

\* Result classes.
DummySegment(segment_data, element) ==
    [kind |-> "DummySegment", data |-> segment_data, tag |-> element.tag,
     label |-> IF element.label # None THEN element.label ELSE element.tag]

Group(placeholder_group, uid) ==
    [kind |-> "Group", mandatory |-> placeholder_group.mandatory,
     repeats |-> placeholder_group.repeats, label |-> placeholder_group.label,
     repeat |-> 0, uid |-> uid, elements |-> <<>>]

\* A Group stored in a list is a reference to the instance in the heap.
Ref(n) == [kind |-> "Ref", ref |-> n]

\* Message.add_to_data and Group.add: append under a label of a dict.
dict_append(d, label, element) ==
    IF label \in DOMAIN d
    THEN [d EXCEPT ![label] = Append(@, element)]
    ELSE d @@ (label :> <<element>>)

add_to_data(label, element) == dict_append(data, label, element)

Group_add(group, label, element) ==
    [group EXCEPT !.elements = dict_append(@, label, element)]

----------------------------------------------------------------------------
\* The grammars (message types) and source strings of the model.

FlatSpecs ==
    {<<PlaceholderSegment("A", s, r, None), PlaceholderSegment("B", "C", 1, None)>> :
        s \in Status, r \in 1..MaxRepeats}

TwinSpecs ==
    {<<PlaceholderSegment("A", s, r, "A1"), PlaceholderSegment("A", "C", 1, "A2")>> :
        s \in Status, r \in 1..MaxRepeats}

TrailingGroupSpecs ==
    {<<PlaceholderSegment("A", "M", 1, None),
       SegmentGroup(<<PlaceholderSegment("B", "M", r, None)>>, gs, gr, "G1")>> :
        r \in 1..MaxRepeats, gs \in Status, gr \in 1..MaxRepeats}

LeadingGroupSpecs ==
    {<<SegmentGroup(<<PlaceholderSegment("A", "M", r, None),
                      PlaceholderSegment("B", s, 1, None)>>, gs, gr, "G1"),
       PlaceholderSegment("B", "C", 1, "B2")>> :
        r \in 1..MaxRepeats, s \in Status, gs \in Status, gr \in 1..MaxRepeats}

NestedFirstSpecs ==
    {<<SegmentGroup(<<SegmentGroup(<<PlaceholderSegment("A", "M", 1, None)>>,
                                    "M", gr2, "G2")>>, gs, gr, "G1"),
       PlaceholderSegment("B", "C", 1, None)>> :
        gs \in Status, gr \in 1..MaxRepeats, gr2 \in 1..MaxRepeats}

NestedLaterSpecs ==
    {<<SegmentGroup(<<PlaceholderSegment("A", "M", 1, None),
                      SegmentGroup(<<PlaceholderSegment("B", "M", 1, None)>>,
                                   gs, gr2, "G2")>>, "C", gr, "G1")>> :
        gs \in Status, gr \in 1..MaxRepeats, gr2 \in 1..MaxRepeats}

\* A grammar that declares a segment with an envelope tag.
EnvelopeSpecs ==
    {<<PlaceholderSegment("UNH", s, 1, None), PlaceholderSegment("A", "C", 1, None)>> :
        s \in Status}

Specs == FlatSpecs \cup TwinSpecs \cup TrailingGroupSpecs \cup LeadingGroupSpecs
         \cup NestedFirstSpecs \cup NestedLaterSpecs \cup EnvelopeSpecs

\* separate_segments / separate_components: a segment is the list of its tag
\* and its components; the one component carries the segment's position.
SourceSegments ==
    {[i \in DOMAIN t |-> <<t[i], i>>] :
        t \in UNION {[1..n -> InputTags] : n \in 1..MaxLen}}

----------------------------------------------------------------------------
\* Message.get_element: the grammar element at a path of 0-based indices,
\* NoElement (None) past the end of a level.
RECURSIVE descend(_, _)
descend(result, indices) ==
    IF indices = <<>> THEN result
    ELSE IF result.kind # "SegmentGroup" THEN NoAttribute
    ELSE IF Head(indices) < Len(result.elements)
         THEN descend(result.elements[Head(indices) + 1], Tail(indices))
         ELSE descend(NoElement, Tail(indices))

get_element(indices) ==
    IF indices[1] >= Len(elements) THEN NoElement
    ELSE descend(elements[indices[1] + 1], Tail(indices))

\* elements_indices[-1] += 1
advance(indices) == [indices EXCEPT ![Len(indices)] = @ + 1]

\* tag = segments[segment_index][0]
tag == segments[segment_index + 1][1]

\* group_starts_with_segment(group, tag), for a first child that has a tag
group_starts_with_segment(group, t) == group.elements[1].tag = t

NoError == [type |-> None, arg |-> None]

raise(type, arg) ==
    /\ pc' = "raised"
    /\ error' = [type |-> type, arg |-> arg]
    /\ UNCHANGED <<segment_index, elements_indices, repeats, last_containers,
                   data, heap>>

\* add_segment that stores in the outermost open Group instead of the innermost.
add_segment_to_outermost(element, segment_data, parent_groups) ==
    LET segment == DummySegment(Tail(segment_data), element) IN
    IF Len(parent_groups) > 0
    THEN /\ heap' = [heap EXCEPT ![parent_groups[1]] =
                         Group_add(@, segment.label, segment)]
         /\ data' = data
    ELSE /\ data' = add_to_data(segment.label, segment)
         /\ heap' = heap

\* Message.add_segment
add_segment(element, segment_data, parent_groups) ==
    LET segment == DummySegment(Tail(segment_data), element) IN
    IF Len(parent_groups) > 0
    THEN /\ heap' = [heap EXCEPT ![parent_groups[Len(parent_groups)]] =
                         Group_add(@, segment.label, segment)]
         /\ data' = data
    ELSE /\ data' = add_to_data(segment.label, segment)
         /\ heap' = heap

\* Message.add_group; the new instance gets the next heap index
add_group(placeholder_group, parent_groups, uid) ==
    LET group == Group(placeholder_group, uid)
        ref == Len(heap) + 1 IN
    IF Len(parent_groups) > 0
    THEN /\ heap' = Append([heap EXCEPT ![parent_groups[Len(parent_groups)]] =
                                Group_add(@, group.label, Ref(ref))], group)
         /\ data' = data
    ELSE /\ data' = add_to_data(group.label, Ref(ref))
         /\ heap' = Append(heap, group)

\* process_end that also moves on to the next segment.
process_end_consuming ==
    /\ elements_indices' = SubSeq(elements_indices, 1, Len(elements_indices) - 1)
    /\ repeats' = 0
    /\ last_containers' = IF Len(last_containers) > 0
                          THEN SubSeq(last_containers, 1, Len(last_containers) - 1)
                          ELSE last_containers
    /\ segment_index' = segment_index + 1
    /\ UNCHANGED <<data, heap, pc, error>>

\* Message.process_end
process_end ==
    /\ elements_indices' = SubSeq(elements_indices, 1, Len(elements_indices) - 1)
    /\ repeats' = 0
    /\ last_containers' = IF Len(last_containers) > 0
                          THEN SubSeq(last_containers, 1, Len(last_containers) - 1)
                          ELSE last_containers
    /\ UNCHANGED <<segment_index, data, heap, pc, error>>

\* Message.process_group: the test that raises for a missing mandatory group
group_is_missing(group, reps) == group.mandatory /\ reps = 0

\* Message.process_group
process_group ==
    LET group == get_element(elements_indices) IN
    IF repeats + 1 >= group.repeats
    THEN process_end
    ELSE LET reps == repeats + 1 IN
         IF group.elements[1].kind # "PlaceholderSegment"
         THEN raise("AttributeError", "tag")
         ELSE IF ~group_starts_with_segment(group, tag)
         THEN IF group_is_missing(group, reps)
              THEN raise("MissingSegmentAtPositionError", group.elements[1].tag)
              ELSE /\ repeats' = 0
                   /\ elements_indices' = advance(elements_indices)
                   /\ UNCHANGED <<segment_index, last_containers, data, heap,
                                  pc, error>>
         ELSE \E uid \in Uids :
                 /\ add_group(group, last_containers, uid)
                 /\ last_containers' = Append(last_containers, Len(heap) + 1)
                 /\ elements_indices' = Append(elements_indices, 0)
                 /\ repeats' = reps
                 /\ UNCHANGED <<segment_index, pc, error>>

\* The test without the repeat condition.
segment_is_missing_always(element, reps) == element.mandatory

\* The test with the repeat condition inverted.
segment_is_missing_on_repeat(element, reps) == element.mandatory /\ reps # 0

\* Message.process_segment: the test that raises for a missing mandatory segment
segment_is_missing(element, reps) == element.mandatory /\ reps = 0

\* Message.process_segment
process_segment ==
    LET element == get_element(elements_indices) IN
    IF ~(element.tag = tag)
    THEN IF segment_is_missing(element, repeats)
         THEN raise("MissingSegmentAtPositionError", element.tag)
         ELSE /\ repeats' = 0
              /\ elements_indices' = advance(elements_indices)
              /\ UNCHANGED <<segment_index, last_containers, data, heap, pc, error>>
    ELSE /\ add_segment(element, segments[segment_index + 1], last_containers)
         /\ segment_index' = segment_index + 1
         /\ IF repeats + 1 >= element.repeats
            THEN /\ elements_indices' = advance(elements_indices)
                 /\ repeats' = 0
            ELSE /\ elements_indices' = elements_indices
                 /\ repeats' = repeats + 1
         /\ UNCHANGED <<last_containers, pc, error>>

\* The result a caller reads through Message.__getitem__: the dict with every
\* Group reference replaced by the instance it refers to.
RECURSIVE Contents(_, _)
Contents(mapping, h) ==
    [label \in DOMAIN mapping |->
        [i \in 1..Len(mapping[label]) |->
            LET node == mapping[label][i] IN
            IF node.kind = "Ref"
            THEN [h[node.ref] EXCEPT !.elements = Contents(@, h)]
            ELSE node]]

----------------------------------------------------------------------------
\* Message.process_segments, one action per branch of one activation.

Running == pc = "process_segments"
AtEnd == segment_index >= Len(segments) \/ Len(elements_indices) < 1
Current == get_element(elements_indices)
Dispatch == Running /\ ~AtEnd /\ tag \notin segments_to_ignore

\* "Exit at the end of segments or elements"
Return ==
    /\ Running /\ AtEnd
    /\ pc' = "done"
    /\ returned' = Append(returned, Contents(data, heap))
    /\ UNCHANGED <<elements, segments, segment_index, elements_indices, repeats,
                   last_containers, data, heap, error, instance>>

\* "Skip certain segments"
Ignore ==
    /\ Running /\ ~AtEnd /\ tag \in segments_to_ignore
    /\ segment_index' = segment_index + 1
    /\ UNCHANGED <<elements, segments, elements_indices, repeats,
                   last_containers, data, heap, pc, error, instance, returned>>

\* "End of group or hierarchy"
ProcessEnd ==
    /\ Dispatch /\ Current.kind = "None"
    /\ process_end
    /\ UNCHANGED <<elements, segments, instance, returned>>

\* "Process group"
ProcessGroup ==
    /\ Dispatch /\ Current.kind = "SegmentGroup"
    /\ process_group
    /\ UNCHANGED <<elements, segments, instance, returned>>

\* "Process segment"
ProcessSegment ==
    /\ Dispatch /\ Current.kind = "PlaceholderSegment"
    /\ process_segment
    /\ UNCHANGED <<elements, segments, instance, returned>>

\* Message.__init__ of the next instance of the same message type, given the
\* same source string: Message.data and the default list are not rebuilt.
Message ==
    /\ pc \in {"done", "raised"}
    /\ instance < MaxParses
    /\ instance' = instance + 1
    /\ segment_index' = 0
    /\ elements_indices' = <<0>>
    /\ repeats' = 0
    /\ pc' = "process_segments"
    /\ error' = NoError
    /\ UNCHANGED <<elements, segments, last_containers, data, heap, returned>>

Init ==
    /\ elements \in Specs
    /\ segments \in SourceSegments
    /\ segment_index = 0
    /\ elements_indices = <<0>>
    /\ repeats = 0
    /\ last_containers = <<>>
    /\ data = <<>>
    /\ heap = <<>>
    /\ pc = "process_segments"
    /\ error = NoError
    /\ instance = 1
    /\ returned = <<>>

Next == Return \/ Ignore \/ ProcessEnd \/ ProcessGroup \/ ProcessSegment \/ Message

Spec == Init /\ [][Next]_vars

\* process_segments runs to its return or to an exception without waiting
\* for anything, and the caller then builds the next instance.
FairSpec == Spec /\ WF_vars(Next)

----------------------------------------------------------------------------
\* Vocabulary of the properties.

Missing == "MissingSegmentAtPositionError"

\* The envelope and control tags, which no grammar position consumes.
EnvelopeTags == {"UNA", "UNH", "BGM", "UNT"}

\* The tags of the source string, in order.
SourceTags == [i \in 1..Len(segments) |-> segments[i][1]]

\* The label a grammar element's results are stored under.
LabelOf(element) ==
    IF element.kind = "PlaceholderSegment" /\ element.label = None
    THEN element.tag ELSE element.label

\* The tag that opens a group: the tag of its first child, resolved through
\* first children that are groups themselves.
RECURSIVE EntryTag(_)
EntryTag(element) ==
    IF element.kind = "PlaceholderSegment" THEN element.tag
    ELSE EntryTag(element.elements[1])

\* The dict that receives the next result: the innermost open Group's, or
\* the top-level one.
OpenContainer(d, h, containers) ==
    IF Len(containers) > 0 THEN h[containers[Len(containers)]].elements ELSE d

EntriesUnder(mapping, label) ==
    IF label \in DOMAIN mapping THEN Len(mapping[label]) ELSE 0

\* The shape of a result: labels, list lengths and nesting.
RECURSIVE Shape(_)
Shape(tree) ==
    [label \in DOMAIN tree |->
        [i \in 1..Len(tree[label]) |->
            IF tree[label][i].kind = "Group"
            THEN [kind |-> "Group", elements |-> Shape(tree[label][i].elements)]
            ELSE [kind |-> "DummySegment"]]]

\* The valid traversals of a grammar level: the tags each one emits and the
\* shape of the result it describes.  An element is taken 0..repeats times
\* (1..repeats when mandatory), a group repeat is a traversal of its children.
RECURSIVE Traversals(_), Occurrences(_, _)
Occurrences(element, k) ==
    IF k = 0 THEN {[tags |-> <<>>, entries |-> <<>>]}
    ELSE LET once == IF element.kind = "PlaceholderSegment"
                     THEN {[tags |-> <<element.tag>>,
                            entry |-> [kind |-> "DummySegment"]]}
                     ELSE {[tags |-> w.tags,
                            entry |-> [kind |-> "Group", elements |-> w.tree]] :
                             w \in {x \in Traversals(element.elements) : x.tags # <<>>}}
         IN {[tags |-> o.tags \o r.tags, entries |-> <<o.entry>> \o r.entries] :
                o \in once, r \in Occurrences(element, k - 1)}

Traversals(nodes) ==
    IF nodes = <<>> THEN {[tags |-> <<>>, tree |-> <<>>]}
    ELSE LET element == nodes[1]
             least == IF element.mandatory THEN 1 ELSE 0
             first == UNION {Occurrences(element, k) : k \in least..element.repeats}
         IN {[tags |-> f.tags \o r.tags,
              tree |-> IF f.entries = <<>> THEN r.tree
                       ELSE IF LabelOf(element) \in DOMAIN r.tree
                       THEN [r.tree EXCEPT ![LabelOf(element)] = f.entries \o @]
                       ELSE (LabelOf(element) :> f.entries) @@ r.tree] :
                f \in first, r \in Traversals(Tail(nodes))}

Finished == pc \in {"done", "raised"}

\* A step that opens a group: a new Group instance exists, is referred to
\* under the group's label at the end of the open container's list, and is
\* the innermost open container afterwards.
Entered(group) ==
    LET ref == Len(heap) + 1
        into == OpenContainer(data', heap', last_containers) IN
    /\ Len(heap') = ref
    /\ last_containers' = Append(last_containers, ref)
    /\ group.label \in DOMAIN into
    /\ into[group.label][Len(into[group.label])] = Ref(ref)

----------------------------------------------------------------------------
\* C1: a source string of non-envelope segments that is a valid traversal of
\* the grammar is parsed without error, and the result has exactly the labels, list lengths and
\* nesting of a traversal that emits these tags (groups with repeats = 1
\* included).
C1_ValidTraversalIsParsed ==
    (/\ Finished
     /\ \A i \in 1..Len(segments) : SourceTags[i] \notin EnvelopeTags
     /\ \E w \in Traversals(elements) : w.tags = SourceTags)
    => /\ pc = "done"
       /\ \E w \in Traversals(elements) :
             /\ w.tags = SourceTags
             /\ w.tree = Shape(Contents(data, heap))

\* C2: a mandatory segment element met with repeats = 0 and a different tag
\* raises MissingSegmentAtPositionError with the element's tag, and the step
\* adds nothing to any container.
C2_MissingMandatorySegmentRaises ==
    [][(/\ Dispatch
        /\ Current.kind = "PlaceholderSegment"
        /\ Current.mandatory
        /\ repeats = 0
        /\ tag # Current.tag)
       => (/\ pc' = "raised"
           /\ error' = [type |-> Missing, arg |-> Current.tag]
           /\ data' = data
           /\ heap' = heap)]_vars

C2_Witness ==
    /\ pc = "raised"
    /\ error.type = Missing
    /\ Current.kind = "PlaceholderSegment"
    /\ Current.mandatory
    /\ repeats = 0
    /\ tag # Current.tag
    /\ error.arg = Current.tag
    /\ DOMAIN data # {}

\* C3: a mandatory group that has no instance yet in the open container,
\* met with repeats = 0 and a tag other than its entry tag, raises
\* MissingSegmentAtPositionError naming the group's first child; the group is
\* not skipped.
C3_MissingMandatoryGroupRaises ==
    [][(/\ Dispatch
        /\ Current.kind = "SegmentGroup"
        /\ Current.mandatory
        /\ repeats = 0
        /\ EntriesUnder(OpenContainer(data, heap, last_containers), Current.label) = 0
        /\ tag # EntryTag(Current))
       => (/\ pc' = "raised"
           /\ error' = [type |-> Missing, arg |-> EntryTag(Current)])]_vars

\* C4: a segment element with repeats = N stays the current element until N
\* segments are stored under its label in the open container and then the
\* cursor moves past it; never more than N are stored there.
C4_SegmentRepeats ==
    [][(/\ Dispatch
        /\ Current.kind = "PlaceholderSegment"
        /\ tag = Current.tag)
       => LET n == EntriesUnder(OpenContainer(data', heap', last_containers'),
                                LabelOf(Current)) IN
          /\ n <= Current.repeats
          /\ segment_index' = segment_index + 1
          /\ IF n = Current.repeats
             THEN elements_indices' = advance(elements_indices)
             ELSE elements_indices' = elements_indices]_vars

\* C5: no container ever holds more Group instances under a group's label
\* than the group's repeats.
C5_GroupRepeatsBounded ==
    \A mapping \in {data} \cup {heap[n].elements : n \in 1..Len(heap)} :
        \A label \in DOMAIN mapping :
            \A i \in 1..Len(mapping[label]) :
                mapping[label][i].kind = "Ref"
                => Len(mapping[label]) <= heap[mapping[label][i].ref].repeats

\* C6: a step on a group opens it exactly when the tag equals the group's
\* entry tag.
C6_GroupEnteredIffEntryTag ==
    [][(Dispatch /\ Current.kind = "SegmentGroup")
       => (Entered(Current) <=> tag = EntryTag(Current))]_vars

\* The enclosing container of the element at the cursor: the top-level dict
\* on the first grammar level, else the innermost open Group, which is then
\* an instance of the group the cursor is inside.  StoredIn says that a step
\* appended node under label there, created the instances in fresh, and
\* changed no other container.
StoredIn(label, node, fresh) ==
    IF Len(elements_indices) = 1
    THEN /\ data' = dict_append(data, label, node)
         /\ heap' = heap \o fresh
    ELSE /\ Len(last_containers) = Len(elements_indices) - 1
         /\ LET parent == last_containers[Len(last_containers)]
                inside == get_element(SubSeq(elements_indices, 1,
                                             Len(elements_indices) - 1)) IN
            /\ heap[parent].label = inside.label
            /\ heap' = [heap EXCEPT ![parent] = Group_add(@, label, node)] \o fresh
         /\ data' = data

Scenario ==
    <<PlaceholderSegment("A", "M", 1, None),
      SegmentGroup(<<PlaceholderSegment("B", "M", 1, None)>>, "C", 2, "G1")>>

ScenarioResult ==
    LET seg == [kind |-> "DummySegment"]
        grp == [kind |-> "Group", elements |-> ("B" :> <<seg>>)] IN
    IF SourceTags = <<"A", "B", "B">>
    THEN ("A" :> <<seg>>) @@ ("G1" :> <<grp, grp>>)
    ELSE ("A" :> <<seg>>)

\* The result without the uid of the Group instances.
RECURSIVE NoUid(_)
NoUid(tree) ==
    [label \in DOMAIN tree |->
        [i \in 1..Len(tree[label]) |->
            IF tree[label][i].kind = "Group"
            THEN [k \in DOMAIN tree[label][i] \ {"uid"} |->
                    IF k = "elements" THEN NoUid(tree[label][i].elements)
                    ELSE tree[label][i][k]]
            ELSE tree[label][i]]]

\* C7: every Group instance is created empty and is appended last under the
\* group's label in the enclosing container, every matched segment is stored
\* in the enclosing container and nowhere else, and the scenario grammar
\* [A mandatory, G1 optional repeats=2 [B mandatory]] gives A -> [segment],
\* G1 -> [group{B}, group{B}] for A,B,B and A -> [segment] alone for A.
C7_RepeatsHaveOwnInstances ==
    [][/\ (Dispatch /\ Current.kind = "SegmentGroup" /\ Len(heap') > Len(heap))
          => \E uid \in Uids :
                StoredIn(Current.label, Ref(Len(heap) + 1), <<Group(Current, uid)>>)
       /\ (Dispatch /\ Current.kind = "PlaceholderSegment" /\ tag = Current.tag)
          => StoredIn(LabelOf(Current),
                      DummySegment(Tail(segments[segment_index + 1]), Current), <<>>)
       /\ (/\ pc' = "done"
           /\ elements = Scenario
           /\ SourceTags \in {<<"A", "B", "B">>, <<"A">>})
          => Shape(Contents(data', heap')) = ScenarioResult]_vars

\* C8: a step on an optional element raises nothing, and when the tag is not
\* the element's (entry) tag it only moves the cursor to the next sibling or
\* one level up, consuming no segment.
C8_OptionalNeverRaises ==
    [][(/\ Dispatch
        /\ Current.kind \in {"PlaceholderSegment", "SegmentGroup"}
        /\ ~Current.mandatory)
       => /\ error'.type # Missing
          /\ tag # EntryTag(Current)
             => /\ pc' = "process_segments"
                /\ segment_index' = segment_index
                /\ \/ elements_indices' = advance(elements_indices)
                   \/ elements_indices' = SubSeq(elements_indices, 1,
                                                 Len(elements_indices) - 1)]_vars

\* C9: every parse ends, and it ends in no other way than by returning at
\* the end of the segments or of the grammar, or by raising
\* MissingSegmentAtPositionError.
C9_ParseEnds ==
    /\ [](Finished => ((pc = "done" /\ AtEnd)
                        \/ (pc = "raised" /\ error.type = Missing)))
    /\ \A n \in 1..MaxParses : (instance = n /\ Running) ~> (instance = n /\ Finished)

\* C10: two instances of one message type given the same source string
\* expose equal results, the uid of the Group instances aside.
C10_SameSourceSameResult ==
    Len(returned) = 2 => NoUid(returned[2]) = NoUid(returned[1])

\* C11: every parse starts with segment_index 0, path [0], repeats 0 and an
\* empty container list, whatever the parses before it left behind, and a
\* segment matched on the first grammar level is stored in the top-level
\* result.
C11_ParseStartsFresh ==
    [][/\ instance' # instance
          => /\ segment_index' = 0
             /\ elements_indices' = <<0>>
             /\ repeats' = 0
             /\ last_containers' = <<>>
       /\ (/\ Dispatch
           /\ Len(elements_indices) = 1
           /\ Current.kind = "PlaceholderSegment"
           /\ tag = Current.tag)
          => /\ data' = add_to_data(LabelOf(Current),
                           DummySegment(Tail(segments[segment_index + 1]), Current))
             /\ heap' = heap]_vars

\* Every DummySegment stored anywhere: in the top-level dict or in a Group.
StoredSegments(d, h) ==
    LET dicts == {d} \cup {h[n].elements : n \in 1..Len(h)} IN
    UNION {{m[label][i] : i \in 1..Len(m[label])} : <<m, label>> \in
              UNION {{<<x, l>> : l \in DOMAIN x} : x \in dicts}}
        \ {[kind |-> "Ref", ref |-> n] : n \in 1..Len(h)}

\* C12: a segment with an envelope tag is consumed by segment_index + 1
\* alone, with path, repeats, containers and results unchanged, and no stored
\* segment was built from a source segment with an envelope tag, also when
\* the grammar declares a segment with that tag.
C12_EnvelopeSegmentsAreSkipped ==
    [][/\ (Running /\ ~AtEnd /\ tag \in EnvelopeTags)
          => /\ segment_index' = segment_index + 1
             /\ UNCHANGED <<elements_indices, repeats, last_containers, data,
                            heap, pc, error>>
       /\ \A seg \in StoredSegments(data', heap') :
             /\ seg.tag \notin EnvelopeTags
             /\ segments[seg.data[1]][1] \notin EnvelopeTags]_vars

\* An envelope segment was skipped in front of a grammar element that
\* declares its tag, and the parse went on to store a later segment.
C12_Witness ==
    /\ elements \in EnvelopeSpecs
    /\ segments[1][1] = "UNH"
    /\ segment_index >= 2
    /\ StoredSegments(data, heap) # {}

\* Every group of a grammar level, nested ones included.
RECURSIVE GroupsOf(_)
GroupsOf(nodes) ==
    UNION {IF nodes[i].kind = "SegmentGroup"
           THEN {nodes[i]} \cup GroupsOf(nodes[i].elements)
           ELSE {} : i \in 1..Len(nodes)}

\* C13: while the path is not empty it is one longer than the container
\* list, the innermost open container is an instance of the group the path
\* is inside, and every label stored in a Group is the label of a direct
\* child of the group the instance was made from.
C13_PathMatchesContainers ==
    /\ elements_indices # <<>>
       => /\ Len(elements_indices) = Len(last_containers) + 1
          /\ Len(last_containers) > 0
             => LET inside == get_element(SubSeq(elements_indices, 1,
                                                 Len(elements_indices) - 1)) IN
                /\ inside.kind = "SegmentGroup"
                /\ heap[last_containers[Len(last_containers)]].label = inside.label
    /\ \A n \in 1..Len(heap) :
          \A label \in DOMAIN heap[n].elements :
              \E group \in GroupsOf(elements) :
                  /\ group.label = heap[n].label
                  /\ \E i \in 1..Len(group.elements) :
                        LabelOf(group.elements[i]) = label

\* C14: the step that enters a group leaves the cursor on the group's
\* first child with repeats = 0.
C14_EnteredGroupStartsAtZero ==
    [][(Dispatch /\ Current.kind = "SegmentGroup" /\ Len(heap') > Len(heap))
       => /\ elements_indices' = Append(elements_indices, 0)
          /\ repeats' = 0]_vars

\* The kinds of step of one parse.
EnvelopeSkip == Running /\ ~AtEnd /\ tag \in EnvelopeTags
SegmentMatch == Dispatch /\ Current.kind = "PlaceholderSegment" /\ tag = Current.tag
GroupEntry == Dispatch /\ Current.kind = "SegmentGroup" /\ Len(heap') > Len(heap)

\* C15: within a parse segment_index changes only by + 1 and only in a
\* segment match or an envelope skip, which both do change it; every other
\* step leaves it alone, and every step other than a segment match and a
\* group entry leaves the results alone.
C15_OnlyMatchAndSkipConsume ==
    [][instance' = instance
       => /\ (EnvelopeSkip \/ SegmentMatch) => segment_index' = segment_index + 1
          /\ ~(EnvelopeSkip \/ SegmentMatch) => segment_index' = segment_index
          /\ ~(SegmentMatch \/ GroupEntry) => (data' = data /\ heap' = heap)
          /\ GroupEntry => Len(heap') = Len(heap) + 1]_vars

\* A group was entered and closed again by a level-exhaustion step, and a
\* segment after it is waiting: steps of every kind have been taken.
C15_Witness ==
    /\ instance = 1
    /\ Running
    /\ Len(heap) >= 1
    /\ last_containers = <<>>
    /\ Len(elements_indices) = 1
    /\ segment_index >= 1
    /\ segment_index < Len(segments)

\* The Group instances on the container list.
Open(containers) == {containers[i] : i \in 1..Len(containers)}

\* C16: a step changes no Group instance other than the last one of the
\* container list, it changes the top-level result only when the list is
\* empty, and it puts no instance on the list except one it has just built;
\* so an instance taken off the list is never changed again.
C16_ClosedGroupsStayClosed ==
    [][/\ \A n \in 1..Len(heap) :
             heap'[n] # heap[n]
             => /\ n \in Open(last_containers)
                /\ n = last_containers[Len(last_containers)]
       /\ data' # data => last_containers = <<>>
       /\ \A n \in Open(last_containers') :
             n \in Open(last_containers) \/ n > Len(heap)]_vars

\* A Group was taken off the container list, and the Group now last on the
\* list received a segment after the closed one did.
C16_Witness ==
    /\ Len(heap) >= 2
    /\ Len(last_containers) >= 1
    /\ \E n \in 1..Len(heap) :
          /\ n \notin Open(last_containers)
          /\ \E label \in DOMAIN heap[n].elements :
                \E outer \in Open(last_containers) :
                  \E other \in DOMAIN heap[outer].elements :
                    LET mine == heap[n].elements[label][1]
                        last == heap[outer].elements[other][Len(heap[outer].elements[other])] IN
                    /\ mine.kind = "DummySegment"
                    /\ last.kind = "DummySegment"
                    /\ last.data[1] > mine.data[1]

\* C17: a mandatory segment element with repeats >= 2 met with repeats >= 1
\* and a different tag does not raise: repeats becomes 0, the last path index
\* grows by one and the segment is not consumed.
C17_RepeatedMandatoryMovesOn ==
    [][(/\ Dispatch
        /\ Current.kind = "PlaceholderSegment"
        /\ Current.mandatory
        /\ Current.repeats >= 2
        /\ repeats >= 1
        /\ tag # Current.tag)
       => /\ pc' = "process_segments"
          /\ error' = error
          /\ repeats' = 0
          /\ elements_indices' = advance(elements_indices)
          /\ segment_index' = segment_index
          /\ data' = data
          /\ heap' = heap]_vars

\* The first grammar element is mandatory with repeats >= 2, matched once
\* and was left by a mismatch.
C17_Witness ==
    /\ instance = 1
    /\ Running
    /\ elements[1].kind = "PlaceholderSegment"
    /\ elements[1].mandatory
    /\ elements[1].repeats >= 2
    /\ elements_indices = <<1>>
    /\ repeats = 0
    /\ EntriesUnder(data, LabelOf(elements[1])) = 1

\* Where the stored segments are: dict 0 is the top-level result, dict n the
\* n-th Group instance.
Dicts(d, h) == [m \in 0..Len(h) |-> IF m = 0 THEN d ELSE h[m].elements]

Positions(d, h) ==
    {p \in UNION {UNION {{<<m, label, i>> : i \in 1..Len(Dicts(d, h)[m][label])}
                           : label \in DOMAIN Dicts(d, h)[m]}
                    : m \in 0..Len(h)}
        : Dicts(d, h)[p[1]][p[2]][p[3]].kind = "DummySegment"}

SourceIndex(d, h, p) == Dicts(d, h)[p[1]][p[2]][p[3]].data[1]

\* No source segment is stored twice, as many segments are stored as
\* non-envelope source segments were consumed, and each list is in source
\* order.
SegmentsStoredOnce ==
    LET where == Positions(data, heap)
        consumed == {i \in 1..segment_index : SourceTags[i] \notin EnvelopeTags} IN
    /\ \A p, q \in where :
          SourceIndex(data, heap, p) = SourceIndex(data, heap, q) => p = q
    /\ Cardinality(where) = Cardinality(consumed)
    /\ \A p, q \in where :
          (p[1] = q[1] /\ p[2] = q[2] /\ p[3] < q[3])
          => SourceIndex(data, heap, p) < SourceIndex(data, heap, q)

\* C18: within a parse segment_index never decreases, and at every step
\* every non-envelope source segment is stored at most once, the number of
\* stored segments is the number of non-envelope segments consumed, and the
\* entries of each list are in increasing order of their source index.
C18_NoBacktracking ==
    [][/\ instance' = instance => segment_index' >= segment_index
       /\ SegmentsStoredOnce']_vars

\* Every mandatory node of a grammar level has an entry in the dict.
MandatoryPresent(nodes, mapping) ==
    \A i \in 1..Len(nodes) :
        nodes[i].mandatory => EntriesUnder(mapping, LabelOf(nodes[i])) >= 1

\* C19: a parse that returns without raising has an entry for every
\* mandatory top-level node in the top-level result, and for every
\* mandatory child of a group in each Group instance of that group.
C19_ReturnedResultIsComplete ==
    pc = "done"
    => /\ MandatoryPresent(elements, data)
       /\ \A n \in 1..Len(heap) :
             \A group \in GroupsOf(elements) :
                 group.label = heap[n].label
                 => MandatoryPresent(group.elements, heap[n].elements)

====
